---- MODULE Spec2Model ----
(***************************************************************************)
(* Model of cropaway's mask utilities (Resources/python/mask_utils.py):    *)
(* the RLE codec (mask_to_rle, rle_to_mask, mask_to_base64,                *)
(* base64_to_mask) and the mask geometry helpers (get_bounding_box,        *)
(* combine_masks).  The functions are pure; the state machine records one  *)
(* request at a time: the call made, its arguments and its outcome.        *)
(*                                                                         *)
(* A mask is a record [h, w, px] with px the row-major flattening, kept in  *)
(* blocks of equal pixels (see "arrays").  A call's outcome is a record    *)
(* [kind |-> "return", val |-> v] or [kind |-> "raise", exc |-> name];     *)
(* Python's None is the record None.                                       *)
(***************************************************************************)
EXTENDS Integers, Sequences, FiniteSets, TLC

\* ---------------------------------------------------------------- bounds
\* largest height and width of the exhaustively enumerated small masks
MaxH == 2
MaxW == 2
\* shape of the large masks (BigH * BigW pixels, more than one u16 run)
BigH == 4
BigW == 50000
\* crafted streams: largest height/width, largest run entry, most entries
ForgeDim == 2
ForgeRun == 2
ForgeLen == 2
\* combine_masks: most masks in a call, largest weight, pixels per mask
MaxMasks == 3
MaxWeight == 2
CombW == 1
\* the server: handler threads running at once, requests accepted in a run
MaxThreads == 2
MaxRequests == 3

\* ------------------------------------------------------ program constants
\* largest value of a 2-byte run entry
U16Max == 65535
\* length of the fixed header: u8 + u16 + u16 + u32
HeaderLen == 9

\* ---------------------------------------------------------------- helpers
Return(v) == [kind |-> "return", val |-> v]

Raise(e) == [kind |-> "raise", exc |-> e]

None == [kind |-> "None"]

List(s) == [kind |-> "list", val |-> s]

Min2(a, b) == IF a < b THEN a ELSE b

RECURSIVE SortedSeq(_)
\* the elements of a finite set of integers in ascending order (np.where)
SortedSeq(S) ==
    IF S = {} THEN <<>>
    ELSE LET lo == CHOOSE x \in S : \A y \in S : x <= y
         IN  <<lo>> \o SortedSeq(S \ {lo})

\* np.diff: differences of consecutive elements
Diff(s) == [i \in 1..(IF Len(s) > 0 THEN Len(s) - 1 ELSE 0) |-> s[i + 1] - s[i]]

RECURSIVE SumSeq(_)
SumSeq(s) == IF s = <<>> THEN 0 ELSE s[1] + SumSeq(Tail(s))

RECURSIVE Concat(_)
Concat(ss) == IF ss = <<>> THEN <<>> ELSE ss[1] \o Concat(Tail(ss))

\* int.to_bytes(n, 'little') for a value that fits
RECURSIVE LE(_, _)
LE(v, n) == IF n = 0 THEN <<>> ELSE <<v % 256>> \o LE(v \div 256, n - 1)

\* int.from_bytes(b, 'little'); the empty slice is 0
RECURSIVE FromLE(_)
FromLE(b) == IF b = <<>> THEN 0 ELSE b[1] + 256 * FromLE(Tail(b))

\* Python slice data[a:b] (0-based, clipped to the buffer)
Slice(data, a, b) == SubSeq(data, a + 1, Min2(b, Len(data)))

\* ------------------------------------------------- zlib (library, framing)
\* Adler-32 of a byte sequence, the checksum that ends a zlib stream
RECURSIVE AdlerFold(_, _, _)
AdlerFold(data, a, b) ==
    IF data = <<>> THEN b * 65536 + a
    ELSE LET a2 == (a + data[1]) % 65521
         IN  AdlerFold(Tail(data), a2, (b + a2) % 65521)

Adler32(data) == AdlerFold(data, 1, 0)

\* big-endian 4-byte form of the checksum
BE32(v) == <<(v \div 16777216) % 256, (v \div 65536) % 256, (v \div 256) % 256, v % 256>>

\* zlib.compress: a zlib stream is the 2-byte header 0x78 0x9c, the deflate
\* body and the Adler-32 of the plain data.  The deflate body is modelled as
\* carrying the plain bytes (lossless compression); header and checksum are
\* kept so that a damaged stream is detected the way zlib detects it.
zlib_compress(data) == <<120, 156>> \o data \o BE32(Adler32(data))

\* zlib.decompress: the plain bytes, or zlib.error for a stream that is too
\* short, has a wrong header or fails its checksum
zlib_decompress(z) ==
    IF Len(z) < 6 THEN Raise("zlib.error")
    ELSE LET body == SubSeq(z, 3, Len(z) - 4)
             tail == SubSeq(z, Len(z) - 3, Len(z))
         IN  IF SubSeq(z, 1, 2) # <<120, 156>> THEN Raise("zlib.error")
             ELSE IF tail # BE32(Adler32(body)) THEN Raise("zlib.error")
             ELSE Return(body)

\* ------------------------------------------------------- base64 (library)
\* a string is a sequence of one-character strings
B64Chars ==
    << "A","B","C","D","E","F","G","H","I","J","K","L","M","N","O","P",
       "Q","R","S","T","U","V","W","X","Y","Z","a","b","c","d","e","f",
       "g","h","i","j","k","l","m","n","o","p","q","r","s","t","u","v",
       "w","x","y","z","0","1","2","3","4","5","6","7","8","9","+","/" >>

B64Char(v) == B64Chars[v + 1]

\* the value of each character of the alphabet
B64Table == [c \in {B64Chars[i] : i \in 1..64} |->
                (CHOOSE i \in 1..64 : B64Chars[i] = c) - 1]

B64Val(c) == B64Table[c]

IsB64Char(c) == c \in DOMAIN B64Table

\* base64.b64encode(...).decode('utf-8')
RECURSIVE b64encode(_)
b64encode(b) ==
    IF Len(b) = 0 THEN <<>>
    ELSE IF Len(b) = 1 THEN
        <<B64Char(b[1] \div 4), B64Char((b[1] % 4) * 16), "=", "=">>
    ELSE IF Len(b) = 2 THEN
        <<B64Char(b[1] \div 4), B64Char((b[1] % 4) * 16 + b[2] \div 16),
          B64Char((b[2] % 16) * 4), "=">>
    ELSE
        <<B64Char(b[1] \div 4), B64Char((b[1] % 4) * 16 + b[2] \div 16),
          B64Char((b[2] % 16) * 4 + b[3] \div 64), B64Char(b[3] % 64)>>
        \o b64encode(SubSeq(b, 4, Len(b)))

\* binascii.a2b_base64 in its default non-strict mode, one character at a
\* time: q is the position in the current quad, left the bits carried over,
\* pads the number of '=' seen in a row, out the bytes decoded so far
RECURSIVE B64Fold(_, _, _, _, _)
B64Fold(s, q, left, pads, out) ==
    IF s = <<>> THEN
        IF q = 0 THEN Return(out) ELSE Raise("binascii.Error")
    ELSE LET c == s[1]
             rest == Tail(s)
         IN  IF c = "=" THEN
                 IF q >= 2 /\ q + pads + 1 >= 4 THEN Return(out)
                 ELSE B64Fold(rest, q, left, IF q >= 2 THEN pads + 1 ELSE pads, out)
             ELSE IF ~IsB64Char(c) THEN B64Fold(rest, q, left, pads, out)
             ELSE LET v == B64Val(c)
                  IN  CASE q = 0 -> B64Fold(rest, 1, v, 0, out)
                        [] q = 1 -> B64Fold(rest, 2, v % 16, 0,
                                            Append(out, left * 4 + v \div 16))
                        [] q = 2 -> B64Fold(rest, 3, v % 4, 0,
                                            Append(out, left * 16 + v \div 4))
                        [] q = 3 -> B64Fold(rest, 0, 0, 0,
                                            Append(out, left * 64 + v))

\* base64.b64decode(b64_string)
b64decode(s) == B64Fold(s, 0, 0, 0, <<>>)

\* ----------------------------------------------------------------- arrays
\* A numpy array of pixels is kept in blocks: a sequence of <<value, count>>
\* pairs, count >= 1, neighbouring blocks holding different values.  Every
\* operation below is the element-wise numpy operation on the array the
\* blocks stand for.
RECURSIVE Canon(_)
\* the blocks of an array given by any sequence of <<value, count>> pairs
Canon(a) ==
    IF a = <<>> THEN <<>>
    ELSE IF a[1][2] = 0 THEN Canon(Tail(a))
    ELSE LET rest == Canon(Tail(a))
         IN  IF rest # <<>> /\ rest[1][1] = a[1][1]
             THEN <<<<a[1][1], a[1][2] + rest[1][2]>>>> \o Tail(rest)
             ELSE <<a[1]>> \o rest

\* the array with the given elements
FromPixels(s) == Canon([i \in 1..Len(s) |-> <<s[i], 1>>])

RECURSIVE ArrLen(_)
\* len(a)
ArrLen(a) == IF a = <<>> THEN 0 ELSE a[1][2] + ArrLen(Tail(a))

RECURSIVE Pix(_, _)
\* a[i - 1]: the i-th element, 1 <= i <= len(a)
Pix(a, i) == IF i <= a[1][2] THEN a[1][1] ELSE Pix(Tail(a), i - a[1][2])

RECURSIVE Take(_, _)
\* a[:k]
Take(a, k) ==
    IF k <= 0 \/ a = <<>> THEN <<>>
    ELSE IF a[1][2] <= k THEN <<a[1]>> \o Take(Tail(a), k - a[1][2])
    ELSE <<<<a[1][1], k>>>>

RECURSIVE Drop(_, _)
\* a[k:]
Drop(a, k) ==
    IF a = <<>> \/ k <= 0 THEN a
    ELSE IF a[1][2] <= k THEN Drop(Tail(a), k - a[1][2])
    ELSE <<<<a[1][1], a[1][2] - k>>>> \o Tail(a)

\* np.zeros(n)
Zeros(n) == Canon(<< <<0, n>> >>)

\* a[pos:pos+rl] = v, for pos + rl <= len(a)
SetSlice(a, pos, rl, v) ==
    Canon(Take(a, pos) \o << <<v, rl>> >> \o Drop(a, pos + rl))

\* the indices 1 .. len(a) at which a block of a ends
BlockEnds(a) == {ArrLen(SubSeq(a, 1, j)) : j \in 1..Len(a)}

\* ------------------------------------------------------------------ masks
Mask(h, w, px) == [h |-> h, w |-> w, px |-> px]

NumPixels(m) == m.h * m.w

\* pixel at row r, column c (0-based) of a mask
At(m, r, c) == Pix(m.px, r * m.w + c + 1)

\* mask.max() of a mask that has pixels
MaxPixel(px) == CHOOSE v \in {px[j][1] : j \in 1..Len(px)} :
                    \A j \in 1..Len(px) : px[j][1] <= v

\* ------------------------------------------------------------ mask_to_rle
\* the inner while loop: one run length as 2-byte entries
RECURSIVE SplitRun(_)
SplitRun(rl) ==
    IF rl > U16Max THEN <<U16Max, 0>> \o SplitRun(rl - U16Max) ELSE <<rl>>

\* the run entries written for the list run_lengths (the for loop)
RunEntries(run_lengths) ==
    Concat([i \in 1..Len(run_lengths) |-> SplitRun(run_lengths[i])])

\* faulty variant of Binarize: the threshold is applied to every mask
Binarize_Always(px) ==
    Canon([j \in 1..Len(px) |-> <<IF px[j][1] > 127 THEN 1 ELSE 0, px[j][2]>>])

\* (mask > 127) or mask.astype(np.uint8), flattened
Binarize(px) ==
    IF MaxPixel(px) > 1
    THEN Canon([j \in 1..Len(px) |-> <<IF px[j][1] > 127 THEN 1 ELSE 0, px[j][2]>>])
    ELSE px

\* np.where(padded[1:] != padded[:-1])[0] for padded = [0] + flat + [0].
\* Two neighbours can differ only where a block of padded ends, so only
\* those indices are compared.
Changes(flat) ==
    LET padded == << <<0, 1>> >> \o flat \o << <<0, 1>> >>
    IN  SortedSeq({e - 1 : e \in {e \in BlockEnds(padded) :
                      /\ e < ArrLen(padded)
                      /\ Pix(padded, e + 1) # Pix(padded, e)}})

\* the uncompressed stream of a mask that has pixels: header, run entries
RleData(m) ==
    LET flat == Binarize(m.px)
        run_lengths == Diff(Changes(flat))
        start_value == Pix(flat, 1)
        entries == RunEntries(run_lengths)
    IN  IF m.h > U16Max \/ m.w > U16Max THEN Raise("OverflowError")
        ELSE Return(<<start_value>> \o LE(m.h, 2) \o LE(m.w, 2)
                    \o LE(Len(run_lengths), 4)
                    \o Concat([i \in 1..Len(entries) |-> LE(entries[i], 2)]))

\* mask.max() raises ValueError for an array without elements
mask_to_rle(m) ==
    IF NumPixels(m) = 0 THEN Raise("ValueError")
    ELSE LET d == RleData(m)
         IN  IF d.kind = "raise" THEN d ELSE Return(zlib_compress(d.val))

mask_to_base64(m) ==
    LET r == mask_to_rle(m)
    IN  IF r.kind = "raise" THEN r ELSE Return(b64encode(r.val))

\* ------------------------------------------------------------ rle_to_mask
\* faulty variant of ReadRuns: the bounds test is off by one and the entry that ends
\* the buffer is not read
RECURSIVE ReadRuns_StopsEarly(_, _, _, _)
ReadRuns_StopsEarly(data, offset, left, acc) ==
    IF left = 0 \/ offset + 2 >= Len(data) THEN acc
    ELSE ReadRuns_StopsEarly(data, offset + 2, left - 1,
                             Append(acc, data[offset + 1] + 256 * data[offset + 2]))

\* the parsing loop: up to num_runs entries, stopping when the buffer ends
RECURSIVE ReadRuns(_, _, _, _)
ReadRuns(data, offset, left, acc) ==
    IF left = 0 \/ offset + 2 > Len(data) THEN acc
    ELSE ReadRuns(data, offset + 2, left - 1,
                  Append(acc, FromLE(Slice(data, offset, offset + 2))))

\* faulty variant of FillRuns: current_value is flipped only after a run that
\* wrote pixels
RECURSIVE FillRuns_FlipOnWrite(_, _, _, _, _)
FillRuns_FlipOnWrite(runs, flat, current_value, pos, wrap) ==
    IF runs = <<>>
    THEN Return([flat |-> flat, current_value |-> current_value, pos |-> pos])
    ELSE LET rl == IF pos + runs[1] > ArrLen(flat) THEN ArrLen(flat) - pos ELSE runs[1]
             v == current_value * 255
         IN  IF rl > 0 /\ (v < 0 \/ v > 255) /\ ~wrap THEN Raise("OverflowError")
             ELSE FillRuns_FlipOnWrite(Tail(runs),
                           IF rl > 0 THEN SetSlice(flat, pos, rl, v % 256) ELSE flat,
                           IF rl > 0 THEN 1 - current_value ELSE current_value,
                           IF rl > 0 THEN pos + rl ELSE pos,
                           wrap)

\* the reconstruction loop; the result is the state after the last run.
\* wrap tells how the installed numpy stores an out-of-range value in a
\* uint8 array: modulo 256, or by raising OverflowError
RECURSIVE FillRuns(_, _, _, _, _)
FillRuns(runs, flat, current_value, pos, wrap) ==
    IF runs = <<>>
    THEN Return([flat |-> flat, current_value |-> current_value, pos |-> pos])
    ELSE LET rl == IF pos + runs[1] > ArrLen(flat) THEN ArrLen(flat) - pos ELSE runs[1]
             v == current_value * 255
         IN  IF rl > 0 /\ (v < 0 \/ v > 255) /\ ~wrap THEN Raise("OverflowError")
             ELSE FillRuns(Tail(runs),
                           IF rl > 0 THEN SetSlice(flat, pos, rl, v % 256) ELSE flat,
                           1 - current_value,
                           IF rl > 0 THEN pos + rl ELSE pos,
                           wrap)

\* faulty variant of DecodeData: the length of the header is not checked (indexing
\* an empty buffer still raises, which the except clause turns into None)
DecodeData_NoHeaderCheck(data, wrap) ==
    IF Len(data) = 0 THEN None
    ELSE LET r == FillRuns(ReadRuns(data, 9, FromLE(Slice(data, 5, 9)), <<>>),
                           Zeros(FromLE(Slice(data, 1, 3)) * FromLE(Slice(data, 3, 5))),
                           data[1], 0, wrap)
         IN  IF r.kind = "raise" THEN None
             ELSE Mask(FromLE(Slice(data, 1, 3)), FromLE(Slice(data, 3, 5)), r.val.flat)

\* the body of the try block, given the decompressed data
DecodeData(data, wrap) ==
    IF Len(data) < HeaderLen THEN None
    ELSE LET start_value == data[1]
             height == FromLE(Slice(data, 1, 3))
             width == FromLE(Slice(data, 3, 5))
             num_runs == FromLE(Slice(data, 5, 9))
             run_lengths == ReadRuns(data, 9, num_runs, <<>>)
             r == FillRuns(run_lengths, Zeros(height * width), start_value, 0, wrap)
         IN  IF r.kind = "raise" THEN None
             ELSE Mask(height, width, r.val.flat)

rle_to_mask(rle_bytes, wrap) ==
    LET z == zlib_decompress(rle_bytes)
    IN  IF z.kind = "raise" THEN None ELSE DecodeData(z.val, wrap)

base64_to_mask(b64_string, wrap) ==
    LET b == b64decode(b64_string)
    IN  IF b.kind = "raise" THEN None ELSE rle_to_mask(b.val, wrap)

\* ------------------------------------------------------- get_bounding_box
RECURSIVE GCD(_, _)
GCD(a, b) == IF b = 0 THEN a ELSE GCD(b, a % b)

\* the float a / b, kept exact as a fraction in lowest terms
Frac(a, b) == [num |-> a \div GCD(a, b), den |-> b \div GCD(a, b)]

\* (0.0, 0.0, 1.0, 1.0)
FullFrame == <<Frac(0, 1), Frac(0, 1), Frac(1, 1), Frac(1, 1)>>

\* faulty variant of get_bounding_box: the extent leaves out the last pixel
get_bounding_box_NoPlusOne(m) ==
    IF NumPixels(m) = 0 THEN Raise("ValueError")
    ELSE IF MaxPixel(m.px) = 0 THEN Return(FullFrame)
    ELSE LET rows == SortedSeq({r \in 0..(m.h - 1) : \E c \in 0..(m.w - 1) : At(m, r, c) > 0})
             cols == SortedSeq({c \in 0..(m.w - 1) : \E r \in 0..(m.h - 1) : At(m, r, c) > 0})
         IN  Return(<<Frac(cols[1], m.w), Frac(rows[1], m.h),
                      Frac(cols[Len(cols)] - cols[1], m.w),
                      Frac(rows[Len(rows)] - rows[1], m.h)>>)

\* faulty variant of get_bounding_box: the extent is measured from the first
\* column and the first row of the frame
get_bounding_box_FromOrigin(m) ==
    IF NumPixels(m) = 0 THEN Raise("ValueError")
    ELSE IF MaxPixel(m.px) = 0 THEN Return(FullFrame)
    ELSE LET rows == SortedSeq({r \in 0..(m.h - 1) : \E c \in 0..(m.w - 1) : At(m, r, c) > 0})
             cols == SortedSeq({c \in 0..(m.w - 1) : \E r \in 0..(m.h - 1) : At(m, r, c) > 0})
         IN  Return(<<Frac(cols[1], m.w), Frac(rows[1], m.h),
                      Frac(cols[Len(cols)] + 1, m.w),
                      Frac(rows[Len(rows)] + 1, m.h)>>)

\* mask.max() raises ValueError for an array without elements
get_bounding_box(m) ==
    IF NumPixels(m) = 0 THEN Raise("ValueError")
    ELSE IF MaxPixel(m.px) = 0 THEN Return(FullFrame)
    ELSE LET rows == SortedSeq({r \in 0..(m.h - 1) : \E c \in 0..(m.w - 1) : At(m, r, c) > 0})
             cols == SortedSeq({c \in 0..(m.w - 1) : \E r \in 0..(m.h - 1) : At(m, r, c) > 0})
         IN  IF rows = <<>> \/ cols = <<>> THEN Return(FullFrame)
             ELSE LET y_min == rows[1]
                      y_max == rows[Len(rows)]
                      x_min == cols[1]
                      x_max == cols[Len(cols)]
                  IN  Return(<<Frac(x_min, m.w), Frac(y_min, m.h),
                               Frac(x_max - x_min + 1, m.w),
                               Frac(y_max - y_min + 1, m.h)>>)

\* ---------------------------------------------------------- combine_masks
\* the accumulation loop over zip(masks, weights), for pixel i
RECURSIVE WeightedSum(_, _, _)
WeightedSum(ms, ws, i) ==
    IF ms = <<>> \/ ws = <<>> THEN 0
    ELSE Pix(ms[1].px, i) * ws[1] + WeightedSum(Tail(ms), Tail(ws), i)

\* faulty variant of combine_masks: the test for an empty list is missing, and
\* masks[0] raises IndexError
combine_masks_NoCheck(ms, ws) ==
    IF ms = <<>> THEN Raise("IndexError")
    ELSE LET wl == IF ws = None THEN [i \in 1..Len(ms) |-> 1] ELSE ws.val
         IN  Return(Mask(ms[1].h, ms[1].w,
                         FromPixels([i \in 1..NumPixels(ms[1]) |->
                             IF 2 * WeightedSum(ms, wl, i) > SumSeq(wl)
                             THEN 255 ELSE 0])))

\* ws is None or List(a sequence of numbers)
combine_masks(ms, ws) ==
    IF ms = <<>> THEN Raise("ValueError")
    ELSE LET wl == IF ws = None THEN [i \in 1..Len(ms) |-> 1] ELSE ws.val
         IN  Return(Mask(ms[1].h, ms[1].w,
                         FromPixels([i \in 1..NumPixels(ms[1]) |->
                             IF 2 * WeightedSum(ms, wl, i) > SumSeq(wl)
                             THEN 255 ELSE 0])))

\* ----------------------------------------------------------------- inputs
\* the mask of shape h x w with pattern p, foreground stored as fg
PatternMask(h, w, p, fg) == Mask(h, w, FromPixels([i \in 1..(h * w) |-> p[i] * fg]))

\* every mask of at most MaxH x MaxW pixels, foreground stored as 1 or 255,
\* the shapes without pixels included
SmallMasks ==
    UNION {UNION {{PatternMask(h, w, p, fg) : p \in [1..(h * w) -> {0, 1}]}
                  : fg \in {1, 255}}
           : h \in 0..MaxH, w \in 0..MaxW}

\* a h x w mask whose pixels lo+1 .. hi (row-major) are foreground
BandMask(h, w, lo, hi, fg) ==
    Mask(h, w, Canon(<< <<0, lo>>, <<fg, hi - lo>>, <<0, h * w - hi>> >>))

\* where the bands of the large masks start and end
BigCuts == {0, 1, U16Max, U16Max + 2, BigH * BigW - 1, BigH * BigW}

\* large masks: BigH x BigW, and the same pixels as a single row
BigMasks ==
    {BandMask(s[1], s[2], c[1], c[2], 255) :
        s \in {<<BigH, BigW>>, <<1, BigH * BigW>>},
        c \in {c \in BigCuts \X BigCuts : c[1] < c[2]}}

Masks == SmallMasks \cup BigMasks

\* the 10 x 10 mask whose only foreground pixel is at row 0, column 0
CornerMask == BandMask(10, 10, 0, 1, 255)

BoxMasks == SmallMasks \cup {CornerMask}

\* sequences over S of length lo .. hi
SeqsOf(S, lo, hi) == UNION {[1..n -> S] : n \in lo..hi}

\* the masks of one combine_masks call: same shape, same foreground value
CombineMasks ==
    UNION {SeqsOf({PatternMask(1, CombW, p, fg) : p \in [1..CombW -> {0, 1}]},
                  0, MaxMasks)
           : fg \in {1, 255}}

\* the weights passed with masks ms: None, or one weight per mask; any
\* list when there are no masks
CombineWeights(ms) ==
    {None} \cup {List(s) : s \in SeqsOf(1..MaxWeight,
                                          IF ms = <<>> THEN 0 ELSE Len(ms),
                                          IF ms = <<>> THEN MaxMasks ELSE Len(ms))}

\* the streams a client crafts: <<start_value, height, width, run_count,
\* run entries>>, run_count one less than, equal to or one more than the
\* number of entries present
ForgeCalls ==
    {c \in (0..2) \X (1..ForgeDim) \X (1..ForgeDim) \X (0..(ForgeLen + 1))
            \X SeqsOf(0..ForgeRun, 0, ForgeLen) :
        c[4] \in {Len(c[5]) - 1, Len(c[5]), Len(c[5]) + 1}}

\* the uncompressed stream with the given header fields and run entries
Stream(sv, h, w, count, runs) ==
    <<sv>> \o LE(h, 2) \o LE(w, 2) \o LE(count, 4)
    \o Concat([i \in 1..Len(runs) |-> LE(runs[i], 2)])

\* the transport string that carries the uncompressed stream data
Transport(data) == b64encode(zlib_compress(data))

\* ------------------------------------------------------------------ state
VARIABLES
    op,         \* the function called last in the current request, or "idle"
    mask,       \* the mask passed to mask_to_base64 / get_bounding_box
    transport,  \* outcome of mask_to_base64, or the string received
    tamper,     \* what happened to the transport string on its way
    decoded,    \* result of base64_to_mask
    box,        \* outcome of get_bounding_box
    masks,      \* combine_masks: the masks ...
    weights,    \*                ... and the weights passed
    combined,   \* outcome of combine_masks
    \* sam3_server.py and sam3_inference.py
    predictor,          \* the server's global: a predictor object, or 0 for None
    model_loaded,       \* the server's global flag
    current_model_id,   \* the server's global model id
    _predictor,         \* the inference module's global: an object, or 0 for None
    objects,            \* the SAM3Predictor objects created so far
    threads,            \* the request each handler thread serves, and where it is
    requests            \* the number of requests accepted so far

\* the state of the mask functions
cvars == <<op, mask, transport, tamper, decoded, box, masks, weights, combined>>

\* the state of the server
svars == <<predictor, model_loaded, current_model_id, _predictor, objects,
           threads, requests>>

vars == <<cvars, svars>>

\* the model ids a request names; the first is the default of the code
DefaultModel == "facebook/sam-vit-huge"

ModelIds == {DefaultModel, "facebook/sam-vit-base"}

Threads == 1..MaxThreads

\* a thread that serves no request
IdleThread == [handler |-> "none", pc |-> "idle", model_id |-> DefaultModel, self |-> 0]

Init ==
    /\ op = "idle"
    /\ mask = None
    /\ transport = None
    /\ tamper = "none"
    /\ decoded = None
    /\ box = None
    /\ masks = <<>>
    /\ weights = None
    /\ combined = None
    /\ predictor = 0
    /\ model_loaded = FALSE
    /\ current_model_id = DefaultModel
    /\ _predictor = 0
    /\ objects = <<>>
    /\ threads = [t \in Threads |-> IdleThread]
    /\ requests = 0

\* the plain stream inside the transport string in flight
Payload == zlib_decompress(b64decode(transport.val).val).val

InFlight == op = "mask_to_base64" /\ transport.kind = "return" /\ tamper = "none"

\* a caller encodes a mask for transport
Encode ==
    /\ op = "idle"
    /\ op' = "mask_to_base64"
    /\ \E m \in Masks :
          /\ mask' = m
          /\ transport' = mask_to_base64(m)
    /\ UNCHANGED <<tamper, decoded, box, masks, weights, combined>>
    /\ UNCHANGED svars

\* the stream reaches the decoder cut to its first k bytes, for any k (still
\* a valid compressed stream): a cut run array, or less than a header
Truncate ==
    /\ InFlight
    /\ LET data == Payload
       IN  \E k \in 0..(Len(data) - 1) :
               /\ transport' = Return(Transport(SubSeq(data, 1, k)))
               /\ tamper' = IF k < HeaderLen THEN "short" ELSE "truncated"
    /\ UNCHANGED <<op, mask, decoded, box, masks, weights, combined>>
    /\ UNCHANGED svars

\* one byte of the compressed stream is damaged: i = 0 the first byte,
\* i = 1 the last one
CorruptZlib(i) ==
    /\ InFlight
    /\ LET z == b64decode(transport.val).val
           at == IF i = 0 THEN 1 ELSE Len(z)
       IN  transport' = Return(b64encode([z EXCEPT ![at] = (z[at] + 1) % 256]))
    /\ tamper' = "badzlib"
    /\ UNCHANGED <<op, mask, decoded, box, masks, weights, combined>>
    /\ UNCHANGED svars

\* the transport string loses its last character
CorruptB64 ==
    /\ InFlight
    /\ transport' = Return(SubSeq(transport.val, 1, Len(transport.val) - 1))
    /\ tamper' = "badb64"
    /\ UNCHANGED <<op, mask, decoded, box, masks, weights, combined>>
    /\ UNCHANGED svars

\* a character outside the base64 alphabet is put in front of the string
InsertNoise ==
    /\ InFlight
    /\ transport' = Return(<<"!">> \o transport.val)
    /\ tamper' = "noise"
    /\ UNCHANGED <<op, mask, decoded, box, masks, weights, combined>>
    /\ UNCHANGED svars

\* a client sends a string it built itself: any header, any run entries
Forge ==
    /\ op = "idle"
    /\ op' = "received"
    /\ \E c \in ForgeCalls :
          transport' = Return(Transport(Stream(c[1], c[2], c[3], c[4], c[5])))
    /\ tamper' = "forged"
    /\ UNCHANGED <<mask, decoded, box, masks, weights, combined>>
    /\ UNCHANGED svars

\* the receiver decodes the string in flight
Decode(wrap) ==
    /\ op \in {"mask_to_base64", "received"}
    /\ transport.kind = "return"
    /\ op' = "base64_to_mask"
    /\ decoded' = base64_to_mask(transport.val, wrap)
    /\ UNCHANGED <<mask, transport, tamper, box, masks, weights, combined>>
    /\ UNCHANGED svars

BoundingBox ==
    /\ op = "idle"
    /\ op' = "get_bounding_box"
    /\ \E m \in BoxMasks :
          /\ mask' = m
          /\ box' = get_bounding_box(m)
    /\ UNCHANGED <<transport, tamper, decoded, masks, weights, combined>>
    /\ UNCHANGED svars

Combine ==
    /\ op = "idle"
    /\ op' = "combine_masks"
    /\ \E ms \in CombineMasks : \E ws \in CombineWeights(ms) :
          /\ masks' = ms
          /\ weights' = ws
          /\ combined' = combine_masks(ms, ws)
    /\ UNCHANGED <<mask, transport, tamper, decoded, box>>
    /\ UNCHANGED svars

\* the request ends; nothing of it is kept
Finish ==
    /\ op # "idle"
    /\ op' = "idle"
    /\ mask' = None
    /\ transport' = None
    /\ tamper' = "none"
    /\ decoded' = None
    /\ box' = None
    /\ masks' = <<>>
    /\ weights' = None
    /\ combined' = None
    /\ UNCHANGED svars

Next ==
    \/ Encode
    \/ Truncate
    \/ \E i \in {0, 1} : CorruptZlib(i)
    \/ CorruptB64
    \/ InsertNoise
    \/ Forge
    \/ \E wrap \in BOOLEAN : Decode(wrap)
    \/ BoundingBox
    \/ Combine
    \/ Finish

Spec == Init /\ [][Next]_vars

\* ------------------------------------------------------------- the server
\* app.run(threaded=True) serves every request in a thread of its own and
\* the handlers take no lock, so the statements of the handlers interleave.
\* A step below is one statement of a handler or of a function it calls; a
\* pc "Ln" is the statement at line n of the file that holds it.  An object
\* is its index in objects; 0 stands for None.

\* SAM3Predictor(model_id=model_id): no model, no image
NewPredictor(model_id) ==
    [model_id |-> model_id, model |-> FALSE, current_image |-> FALSE]

\* thread t goes on at pc
Goto(t, pc) == threads' = [threads EXCEPT ![t].pc = pc]

\* the handler of thread t returns its response, also from its except clause
Respond(t) == threads' = [threads EXCEPT ![t] = IdleThread]

\* where unload_predictor returns to
AfterUnload(t) == IF threads[t].handler = "initialize" THEN "L64" ELSE "L104"

\* a thread takes a POST /initialize naming any model id
initialize(t) ==
    /\ threads[t].pc = "idle"
    /\ requests < MaxRequests
    /\ requests' = requests + 1
    /\ \E model_id \in ModelIds :
          threads' = [threads EXCEPT ![t] =
                         [handler |-> "initialize", pc |-> "L62",
                          model_id |-> model_id, self |-> 0]]
    /\ UNCHANGED <<predictor, model_loaded, current_model_id, _predictor, objects>>
    /\ UNCHANGED cvars

\* if predictor is not None and current_model_id != model_id
initialize_62(t) ==
    /\ threads[t].pc = "L62"
    /\ IF predictor # 0 /\ current_model_id # threads[t].model_id
       THEN Goto(t, "L329")
       ELSE Goto(t, "L68")
    /\ UNCHANGED <<predictor, model_loaded, current_model_id, _predictor, objects,
                   requests>>
    /\ UNCHANGED cvars

\* predictor = None
initialize_64(t) ==
    /\ threads[t].pc = "L64"
    /\ predictor' = 0
    /\ Goto(t, "L65")
    /\ UNCHANGED <<model_loaded, current_model_id, _predictor, objects, requests>>
    /\ UNCHANGED cvars

\* model_loaded = False
initialize_65(t) ==
    /\ threads[t].pc = "L65"
    /\ model_loaded' = FALSE
    /\ Goto(t, "L68")
    /\ UNCHANGED <<predictor, current_model_id, _predictor, objects, requests>>
    /\ UNCHANGED cvars

\* if not model_loaded: ... else: "Model already loaded"
initialize_68(t) ==
    /\ threads[t].pc = "L68"
    /\ IF ~model_loaded THEN Goto(t, "L319") ELSE Respond(t)
    /\ UNCHANGED <<predictor, model_loaded, current_model_id, _predictor, objects,
                   requests>>
    /\ UNCHANGED cvars

\* get_predictor: if _predictor is None or _predictor.model_id != model_id
get_predictor_319(t) ==
    /\ threads[t].pc = "L319"
    /\ IF _predictor = 0 \/ objects[_predictor].model_id # threads[t].model_id
       THEN Goto(t, "L320")
       ELSE Goto(t, "L321")
    /\ UNCHANGED <<predictor, model_loaded, current_model_id, _predictor, objects,
                   requests>>
    /\ UNCHANGED cvars

\* get_predictor: _predictor = SAM3Predictor(model_id=model_id)
get_predictor_320(t) ==
    /\ threads[t].pc = "L320"
    /\ objects' = Append(objects, NewPredictor(threads[t].model_id))
    /\ _predictor' = Len(objects) + 1
    /\ Goto(t, "L321")
    /\ UNCHANGED <<predictor, model_loaded, current_model_id, requests>>
    /\ UNCHANGED cvars

\* get_predictor: return _predictor, assigned to predictor at line 69
get_predictor_321(t) ==
    /\ threads[t].pc = "L321"
    /\ predictor' = _predictor
    /\ Goto(t, "L70")
    /\ UNCHANGED <<model_loaded, current_model_id, _predictor, objects, requests>>
    /\ UNCHANGED cvars

\* success = predictor.load_model(): the call binds self; on None it raises
\* AttributeError, which the except clause answers
initialize_70(t) ==
    /\ threads[t].pc = "L70"
    /\ IF predictor = 0
       THEN Respond(t)
       ELSE threads' = [threads EXCEPT ![t].pc = "L66", ![t].self = predictor]
    /\ UNCHANGED <<predictor, model_loaded, current_model_id, _predictor, objects,
                   requests>>
    /\ UNCHANGED cvars

\* load_model: self.model = SamModel.from_pretrained(...) and return True, or
\* an exception and return False, answered by "Failed to load model"
load_model(t) ==
    /\ threads[t].pc = "L66"
    /\ \E success \in BOOLEAN :
          IF success
          THEN /\ objects' = [objects EXCEPT ![threads[t].self].model = TRUE]
               /\ Goto(t, "L73")
          ELSE /\ objects' = objects
               /\ Respond(t)
    /\ UNCHANGED <<predictor, model_loaded, current_model_id, _predictor, requests>>
    /\ UNCHANGED cvars

\* model_loaded = True
initialize_73(t) ==
    /\ threads[t].pc = "L73"
    /\ model_loaded' = TRUE
    /\ Goto(t, "L74")
    /\ UNCHANGED <<predictor, current_model_id, _predictor, objects, requests>>
    /\ UNCHANGED cvars

\* current_model_id = model_id, and the response
initialize_74(t) ==
    /\ threads[t].pc = "L74"
    /\ current_model_id' = threads[t].model_id
    /\ Respond(t)
    /\ UNCHANGED <<predictor, model_loaded, _predictor, objects, requests>>
    /\ UNCHANGED cvars

\* a thread takes a POST /unload and calls unload_predictor
unload(t) ==
    /\ threads[t].pc = "idle"
    /\ requests < MaxRequests
    /\ requests' = requests + 1
    /\ threads' = [threads EXCEPT ![t] =
                      [handler |-> "unload", pc |-> "L329",
                       model_id |-> DefaultModel, self |-> 0]]
    /\ UNCHANGED <<predictor, model_loaded, current_model_id, _predictor, objects>>
    /\ UNCHANGED cvars

\* unload_predictor: if _predictor is not None
unload_predictor_329(t) ==
    /\ threads[t].pc = "L329"
    /\ IF _predictor # 0 THEN Goto(t, "L330") ELSE Goto(t, AfterUnload(t))
    /\ UNCHANGED <<predictor, model_loaded, current_model_id, _predictor, objects,
                   requests>>
    /\ UNCHANGED cvars

\* unload_predictor: _predictor.unload_model(), which drops the model and
\* the image; on None it raises AttributeError, answered by the except clause
unload_predictor_330(t) ==
    /\ threads[t].pc = "L330"
    /\ IF _predictor = 0
       THEN /\ objects' = objects
            /\ Respond(t)
       ELSE /\ objects' = [objects EXCEPT ![_predictor].model = FALSE,
                                          ![_predictor].current_image = FALSE]
            /\ Goto(t, "L331")
    /\ UNCHANGED <<predictor, model_loaded, current_model_id, _predictor, requests>>
    /\ UNCHANGED cvars

\* unload_predictor: _predictor = None
unload_predictor_331(t) ==
    /\ threads[t].pc = "L331"
    /\ _predictor' = 0
    /\ Goto(t, AfterUnload(t))
    /\ UNCHANGED <<predictor, model_loaded, current_model_id, objects, requests>>
    /\ UNCHANGED cvars

\* predictor = None
unload_104(t) ==
    /\ threads[t].pc = "L104"
    /\ predictor' = 0
    /\ Goto(t, "L105")
    /\ UNCHANGED <<model_loaded, current_model_id, _predictor, objects, requests>>
    /\ UNCHANGED cvars

\* model_loaded = False, and the response
unload_105(t) ==
    /\ threads[t].pc = "L105"
    /\ model_loaded' = FALSE
    /\ Respond(t)
    /\ UNCHANGED <<predictor, current_model_id, _predictor, objects, requests>>
    /\ UNCHANGED cvars

\* a thread takes a POST /segment/points with an image and points
segment_with_points(t) ==
    /\ threads[t].pc = "idle"
    /\ requests < MaxRequests
    /\ requests' = requests + 1
    /\ threads' = [threads EXCEPT ![t] =
                      [handler |-> "segment", pc |-> "L141",
                       model_id |-> DefaultModel, self |-> 0]]
    /\ UNCHANGED <<predictor, model_loaded, current_model_id, _predictor, objects>>
    /\ UNCHANGED cvars

\* if not model_loaded or predictor is None: "Model not loaded"
segment_with_points_141(t) ==
    /\ threads[t].pc = "L141"
    /\ IF ~model_loaded \/ predictor = 0 THEN Respond(t) ELSE Goto(t, "L184")
    /\ UNCHANGED <<predictor, model_loaded, current_model_id, _predictor, objects,
                   requests>>
    /\ UNCHANGED cvars

\* predictor.set_image(image): AttributeError on None, RuntimeError("Model
\* not loaded") when self.model is None, else the image is kept
segment_with_points_184(t) ==
    /\ threads[t].pc = "L184"
    /\ IF predictor = 0 \/ ~objects[predictor].model
       THEN /\ objects' = objects
            /\ Respond(t)
       ELSE /\ objects' = [objects EXCEPT ![predictor].current_image = TRUE]
            /\ Goto(t, "L185")
    /\ UNCHANGED <<predictor, model_loaded, current_model_id, _predictor, requests>>
    /\ UNCHANGED cvars

\* predictor.predict_with_points(...) and the response: the result, or the
\* error raised on None, on an object without image or without model
segment_with_points_185(t) ==
    /\ threads[t].pc = "L185"
    /\ Respond(t)
    /\ UNCHANGED <<predictor, model_loaded, current_model_id, _predictor, objects,
                   requests>>
    /\ UNCHANGED cvars

ServerNext ==
    \E t \in Threads :
        \/ initialize(t)
        \/ initialize_62(t)
        \/ initialize_64(t)
        \/ initialize_65(t)
        \/ initialize_68(t)
        \/ get_predictor_319(t)
        \/ get_predictor_320(t)
        \/ get_predictor_321(t)
        \/ initialize_70(t)
        \/ load_model(t)
        \/ initialize_73(t)
        \/ initialize_74(t)
        \/ unload(t)
        \/ unload_predictor_329(t)
        \/ unload_predictor_330(t)
        \/ unload_predictor_331(t)
        \/ unload_104(t)
        \/ unload_105(t)
        \/ segment_with_points(t)
        \/ segment_with_points_141(t)
        \/ segment_with_points_184(t)
        \/ segment_with_points_185(t)

ServerSpec == Init /\ [][ServerNext]_vars

\* ================================================================= claims
\* the values a mask stores
PixelValues(m) == {m.px[j][1] : j \in 1..Len(m.px)}

\* a mask as base64_to_mask returns it, as opposed to None
IsMask(x) == DOMAIN x = {"h", "w", "px"}

\* a string encoded by mask_to_base64 has been decoded as it was sent
RoundTripDone == op = "base64_to_mask" /\ tamper = "none" /\ mask # None

\* C1: round trip.  For every mask with pixels, height and width <= 65535
\* and values in {0, 255}, base64_to_mask(mask_to_base64(m)) is m, whatever
\* the first pixel is.
C1_RoundTrip ==
    (/\ RoundTripDone
     /\ NumPixels(mask) > 0
     /\ mask.h <= U16Max /\ mask.w <= U16Max
     /\ PixelValues(mask) \subseteq {0, 255})
    => decoded = mask

\* C2: long-run splitting.  For a mask with a run of more than 65535 equal
\* pixels, mask_to_rle succeeds, writes only entries <= 65535, and decoding
\* gives the mask back; so it is for the all-foreground mask of 200000
\* pixels.  Stated for the masks whose first pixel is foreground, to which
\* the statement of C1 about a leading background run does not apply.
C2_LongRunSplit ==
    (/\ mask # None
     /\ tamper = "none"
     /\ mask.h <= U16Max /\ mask.w <= U16Max
     /\ \E j \in 1..Len(mask.px) : mask.px[j][2] > U16Max
     /\ mask.px[1][1] > 0)
    => /\ op = "mask_to_base64" =>
            /\ transport.kind = "return"
            /\ LET entries == ReadRuns(Payload, HeaderLen, Len(Payload), <<>>)
               IN  \A j \in 1..Len(entries) : entries[j] <= U16Max
       /\ op = "base64_to_mask" =>
            decoded = mask

\* C3: decoding is total.  base64_to_mask returns a mask or None for every
\* string, and None whenever the base64 decoding fails, the decompression
\* fails or the decompressed data is shorter than the 9-byte header.
C3_DecodeTotal ==
    op = "base64_to_mask" =>
        /\ decoded = None \/ IsMask(decoded)
        /\ \/ decoded = None
           \/ LET b == b64decode(transport.val)
              IN  /\ b.kind = "return"
                  /\ LET z == zlib_decompress(b.val)
                     IN  z.kind = "return" /\ Len(z.val) >= HeaderLen

\* C3 witness: the payload without any byte (what the encoder writes for a
\* mask without pixels) has been decoded to None
C3_Witness ==
    /\ op = "base64_to_mask"
    /\ transport.val = Transport(<<>>)
    /\ decoded = None

\* C4: encoding never fails.  For every mask with height and width <= 65535
\* mask_to_base64 returns a string; for a mask without pixels it returns the
\* base64 form of the compressed empty payload.
C4_EncodeNeverFails ==
    (/\ op = "mask_to_base64"
     /\ tamper = "none"
     /\ mask.h <= U16Max /\ mask.w <= U16Max)
    => /\ transport.kind = "return"
       /\ NumPixels(mask) = 0 => transport.val = Transport(<<>>)

\* C5: majority rule.  For masks that store foreground as 255, a pixel of
\* the combined mask is foreground iff the weights of the masks in which it
\* is foreground add up to strictly more than half the total weight.
C5_Majority ==
    (/\ op = "combine_masks"
     /\ masks # <<>>
     /\ \A k \in 1..Len(masks) : PixelValues(masks[k]) \subseteq {0, 255})
    => /\ combined.kind = "return"
       /\ LET wl == IF weights = None THEN [k \in 1..Len(masks) |-> 1] ELSE weights.val
              vote(i) == SumSeq([k \in 1..Len(masks) |->
                            IF Pix(masks[k].px, i) = 255 THEN wl[k] ELSE 0])
          IN  \A i \in 1..NumPixels(masks[1]) :
                  Pix(combined.val.px, i) = 255 <=> 2 * vote(i) > SumSeq(wl)

\* a stream with a whole header, start_value 0 or 1 and fewer run entries
\* than the header declares has been decoded
C6_Truncated ==
    /\ op = "base64_to_mask"
    /\ LET b == b64decode(transport.val)
       IN  /\ b.kind = "return"
           /\ LET z == zlib_decompress(b.val)
              IN  /\ z.kind = "return"
                  /\ Len(z.val) >= HeaderLen
                  /\ z.val[1] \in {0, 1}
                  /\ z.val[6] + 256 * z.val[7] + 65536 * z.val[8] + 16777216 * z.val[9]
                        > (Len(z.val) - HeaderLen) \div 2

\* the array of n pixels that the run entries present in the stream data
\* describe, with the pixels after the last run set to rest(polarity held
\* after the last run)
C6_Expected(data, rest(_)) ==
    LET sv == data[1]
        n == (data[2] + 256 * data[3]) * (data[4] + 256 * data[5])
        cnt == (Len(data) - HeaderLen) \div 2
        run(j) == data[HeaderLen + 2 * j - 1] + 256 * data[HeaderLen + 2 * j]
        upto(j) == Min2(n, SumSeq([k \in 1..j |-> run(k)]))
    IN  Canon([j \in 1..(cnt + 1) |->
                  IF j <= cnt
                  THEN <<255 * ((sv + j - 1) % 2), upto(j) - upto(j - 1)>>
                  ELSE <<rest((sv + cnt) % 2), n - upto(cnt)>>])

C6_Zero(polarity) == 0

C6_Polarity(polarity) == 255 * polarity

\* C6 as stated: truncation tolerance, the pixels after the last run read
\* take the polarity the decoder holds when the entries are exhausted
C6_PolarityFill ==
    C6_Truncated =>
        LET data == Payload
        IN  /\ IsMask(decoded)
            /\ decoded.h = data[2] + 256 * data[3]
            /\ decoded.w = data[4] + 256 * data[5]
            /\ decoded.px = C6_Expected(data, C6_Polarity)

\* C6 amended: truncation tolerance.  When the stream has a whole header but
\* fewer run entries than run_count declares, rle_to_mask returns a mask of
\* the declared height x width in which the pixels covered by the runs read
\* carry their encoded values and every other pixel is background (0).
C6_ZeroFill ==
    C6_Truncated =>
        LET data == Payload
        IN  /\ IsMask(decoded)
            /\ decoded.h = data[2] + 256 * data[3]
            /\ decoded.w = data[4] + 256 * data[5]
            /\ decoded.px = C6_Expected(data, C6_Zero)

\* C6 witness: an encoded stream lost part of its run array, and the decoded
\* mask has both pixels written by a run and pixels left at the default
C6_Witness ==
    /\ tamper = "truncated"
    /\ C6_Truncated
    /\ Len(Payload) > HeaderLen + 2
    /\ IsMask(decoded)
    /\ PixelValues(decoded) = {0, 255}

\* C7: bounding box.  For a mask with a foreground pixel the box is
\* (x_min/w, y_min/h, (x_max-x_min+1)/w, (y_max-y_min+1)/h) with x_min/x_max
\* the least/greatest column and y_min/y_max the least/greatest row holding
\* a foreground pixel; the corner pixel of a 10x10 mask gives (0, 0, .1, .1).
C7_BoundingBox ==
    (/\ op = "get_bounding_box"
     /\ NumPixels(mask) > 0
     /\ \E v \in PixelValues(mask) : v > 0)
    => LET fg == {rc \in (0..(mask.h - 1)) \X (0..(mask.w - 1)) :
                      At(mask, rc[1], rc[2]) > 0}
           y_min == CHOOSE y \in {rc[1] : rc \in fg} : \A rc \in fg : y <= rc[1]
           y_max == CHOOSE y \in {rc[1] : rc \in fg} : \A rc \in fg : y >= rc[1]
           x_min == CHOOSE x \in {rc[2] : rc \in fg} : \A rc \in fg : x <= rc[2]
           x_max == CHOOSE x \in {rc[2] : rc \in fg} : \A rc \in fg : x >= rc[2]
       IN  /\ box.kind = "return"
           /\ \A i \in 1..4 : box.val[i].den > 0
           /\ box.val[1].num * mask.w = x_min * box.val[1].den
           /\ box.val[2].num * mask.h = y_min * box.val[2].den
           /\ box.val[3].num * mask.w = (x_max - x_min + 1) * box.val[3].den
           /\ box.val[4].num * mask.h = (y_max - y_min + 1) * box.val[4].den
           /\ mask = CornerMask =>
                 box.val = <<Frac(0, 1), Frac(0, 1), Frac(1, 10), Frac(1, 10)>>

\* C7 witness: the box of a mask whose foreground leaves out the first row
\* and the first column
C7_Witness ==
    /\ op = "get_bounding_box"
    /\ box.kind = "return"
    /\ box.val[1].num > 0 /\ box.val[2].num > 0
    /\ box.val[3] # Frac(1, 1)

\* C8: get_bounding_box always succeeds; for a mask without a foreground
\* pixel (a mask without pixels included) it returns (0, 0, 1, 1).
C8_AlwaysSucceeds ==
    op = "get_bounding_box" =>
        /\ box.kind = "return"
        /\ (\A v \in PixelValues(mask) : v = 0) => box.val = FullFrame

\* C9: idempotent binarization.  A pattern encoded with foreground stored
\* as 1 and with foreground stored as 255 gives the same output: the same
\* start_value, dimensions, run_count and run entries.
C9_SameEncoding ==
    (/\ op = "mask_to_base64"
     /\ tamper = "none"
     /\ PixelValues(mask) \subseteq {0, 1, 255})
    => LET other == Mask(mask.h, mask.w,
                         [j \in 1..Len(mask.px) |->
                             <<CASE mask.px[j][1] = 1 -> 255
                                 [] mask.px[j][1] = 255 -> 1
                                 [] OTHER -> 0,
                               mask.px[j][2]>>])
       IN  /\ transport = mask_to_base64(other)
           /\ transport.kind = "return" => Return(Payload) = RleData(other)

\* C9 witness: a mask that stores foreground as 1 and has background too
\* has been encoded
C9_Witness ==
    /\ op = "mask_to_base64"
    /\ tamper = "none"
    /\ PixelValues(mask) = {0, 1}
    /\ transport.kind = "return"

\* C10: empty combine.  combine_masks with no masks raises ValueError,
\* whatever weights are passed, and produces no mask.
C10_EmptyCombine ==
    (op = "combine_masks" /\ masks = <<>>) => combined = Raise("ValueError")

\* C10 witness: combine_masks was called with no masks and with weights
C10_Witness ==
    /\ op = "combine_masks"
    /\ masks = <<>>
    /\ weights # None
    /\ weights.val # <<>>
    /\ combined.kind = "raise"

\* a mask that has pixels has been encoded and the stream is as written
Encoded ==
    /\ op = "mask_to_base64"
    /\ tamper = "none"
    /\ transport.kind = "return"
    /\ NumPixels(mask) > 0

\* every 2-byte entry that follows the header in the stream data
AllEntries(data) == ReadRuns(data, HeaderLen, (Len(data) - HeaderLen) \div 2, <<>>)

\* C11: header/run-array consistency.  In the stream written for a mask
\* that has pixels, the run_count field of the header is the number of
\* 2-byte run entries that follow the header, the 65535 and 0 entries of a
\* split run included.
C11_RunCountMatches ==
    Encoded =>
        LET data == Payload
        IN  /\ (Len(data) - HeaderLen) % 2 = 0
            /\ FromLE(Slice(data, 5, 9)) = Len(AllEntries(data))

\* C12: run sum.  In the stream written for a mask that has pixels, the run
\* entries add up to height * width, and the first entry is the length of
\* the longest run of start_value pixels that begins at the first pixel
\* (of its first 65535 pixels, when that run is split).
C12_RunSum ==
    Encoded =>
        LET data == Payload
            entries == AllEntries(data)
            flat == Binarize(mask.px)
        IN  /\ SumSeq(entries) = mask.h * mask.w
            /\ entries # <<>>
            /\ flat[1][1] = data[1]
            /\ entries[1] = Min2(flat[1][2], U16Max)

\* a stream with a whole header and start_value 0 or 1 has been decoded
C13_Decoded ==
    /\ op = "base64_to_mask"
    /\ LET b == b64decode(transport.val)
       IN  /\ b.kind = "return"
           /\ LET z == zlib_decompress(b.val)
              IN  /\ z.kind = "return"
                  /\ Len(z.val) >= HeaderLen
                  /\ z.val[1] \in {0, 1}

\* the run entries rle_to_mask reads from the stream data
C13_Runs(data) == ReadRuns(data, HeaderLen, FromLE(Slice(data, 5, 9)), <<>>)

\* what the reconstruction loop holds after its first k runs
C13_After(data, k) ==
    FillRuns(SubSeq(C13_Runs(data), 1, k),
             Zeros(FromLE(Slice(data, 1, 3)) * FromLE(Slice(data, 3, 5))),
             data[1], 0, TRUE).val

\* C13: decoder reconstruction.  For a header with start_value 0 or 1 and
\* any run entries read, rle_to_mask takes the runs in order; each run is
\* cut to the pixels still free (height*width - filled), writes
\* current_value*255 to exactly that many next pixels and to no pixel
\* written before, and is followed by a flip of current_value, a run of
\* length zero or cut to zero included; the filled count never exceeds
\* height*width, and the result has shape height x width with every pixel
\* 0 or 255.
C13_Reconstruction ==
    C13_Decoded =>
        LET data == Payload
            height == FromLE(Slice(data, 1, 3))
            width == FromLE(Slice(data, 3, 5))
            n == height * width
            runs == C13_Runs(data)
        IN  /\ C13_After(data, 0) =
                   [flat |-> Zeros(n), current_value |-> data[1], pos |-> 0]
            /\ \A k \in 1..Len(runs) :
                   LET a == C13_After(data, k - 1)
                       b == C13_After(data, k)
                       rl == Min2(runs[k], n - a.pos)
                   IN  /\ b.pos = a.pos + rl
                       /\ b.pos <= n
                       /\ b.current_value = 1 - a.current_value
                       /\ Take(b.flat, a.pos) = Take(a.flat, a.pos)
                       /\ Take(Drop(b.flat, a.pos), rl) =
                              Canon(<< <<a.current_value * 255, rl>> >>)
                       /\ Drop(b.flat, b.pos) = Zeros(n - b.pos)
            /\ decoded = Mask(height, width, C13_After(data, Len(runs)).flat)
            /\ ArrLen(decoded.px) = n
            /\ PixelValues(decoded) \subseteq {0, 255}

\* C13 witness: a crafted stream with a run of length zero followed by a
\* run longer than the pixels left has been decoded, and the run that was
\* cut wrote foreground
C13_Witness ==
    /\ tamper = "forged"
    /\ C13_Decoded
    /\ LET data == Payload
           runs == C13_Runs(data)
       IN  /\ Len(runs) = 2
           /\ runs[1] = 0
           /\ runs[2] > FromLE(Slice(data, 1, 3)) * FromLE(Slice(data, 3, 5))
    /\ IsMask(decoded)
    /\ PixelValues(decoded) = {255}

\* a / b <= c / d for fractions with positive denominators
FracLE(p, q) == p.num * q.den <= q.num * p.den

\* the float sum of two fractions, kept exact
FracSum(p, q) == Frac(p.num * q.den + q.num * p.den, p.den * q.den)

\* C14: the box stays inside the unit square.  For every mask that has
\* pixels, the box (x, y, w, h) returned by get_bounding_box has 0 <= x,
\* 0 <= y, 0 < w <= 1, 0 < h <= 1, x + w <= 1 and y + h <= 1.
C14_InsideUnitSquare ==
    (op = "get_bounding_box" /\ NumPixels(mask) > 0)
    => /\ box.kind = "return"
       /\ LET x == box.val[1]
              y == box.val[2]
              w == box.val[3]
              h == box.val[4]
          IN  /\ \A i \in 1..4 : box.val[i].den > 0
              /\ x.num >= 0
              /\ y.num >= 0
              /\ w.num > 0 /\ FracLE(w, Frac(1, 1))
              /\ h.num > 0 /\ FracLE(h, Frac(1, 1))
              /\ FracLE(FracSum(x, w), Frac(1, 1))
              /\ FracLE(FracSum(y, h), Frac(1, 1))

\* C14 witness: the box of a mask whose foreground leaves out the first
\* column and the first row and reaches the last column and the last row:
\* x + w and y + h are exactly 1
C14_Witness ==
    /\ op = "get_bounding_box"
    /\ NumPixels(mask) > 0
    /\ box.kind = "return"
    /\ box.val[1].num > 0 /\ box.val[2].num > 0
    /\ FracSum(box.val[1], box.val[3]) = Frac(1, 1)
    /\ FracSum(box.val[2], box.val[4]) = Frac(1, 1)

\* the predictor the server holds is usable: it exists and its model is
\* loaded
PredictorLoaded == predictor # 0 /\ objects[predictor].model

\* no /initialize or /unload handler is between two of its statements
LifecycleQuiet == \A t \in Threads : threads[t].handler \in {"none", "segment"}

\* C15: model-lifecycle consistency.  Under every interleaving of the
\* handlers, whenever model_loaded is true the server's predictor is not
\* None, is the inference module's global predictor, has its model loaded
\* and has model_id = current_model_id; and a segment request that has
\* passed the "model loaded" test finds a predictor with its model loaded.
\* The first part is stated for the states that the /initialize and
\* /unload handlers leave behind, not for the states inside one of them.
C15_LifecycleConsistent ==
    /\ (model_loaded /\ LifecycleQuiet) =>
           /\ PredictorLoaded
           /\ predictor = _predictor
           /\ objects[predictor].model_id = current_model_id
    /\ \A t \in Threads :
           threads[t].pc \in {"L184", "L185"} => PredictorLoaded

====
